---- MODULE Spec2Model ----
(***************************************************************************)
(* SDWebRecovery (src/src/main.cpp): an ESP32 sketch that serves an SD     *)
(* card over HTTP.  setup() registers three handlers and loop() runs       *)
(* server.handleClient(), which dispatches one request at a time to        *)
(*   printDirectory  (GET /list), streamRaw (GET /raw), handleNotFound     *)
(*   (everything else, which first tries loadFromSdCard).                  *)
(* The model follows the handlers statement by statement.  `trace' is the  *)
(* sequence of calls the current request has made on the collaborators     *)
(* (SD, File, WebServer, Serial); it is cleared when the next request is   *)
(* dispatched.                                                             *)
(* Strings the code inspects (paths) are sequences of one-character        *)
(* strings; MIME types and fixed messages are plain strings.               *)
(***************************************************************************)
EXTENDS Integers, Sequences, FiniteSets, TLC

\* ------------------------------------------------------------------ bounds
\* Largest sector count SD.numSectors() returns in the model.
MaxSectors == 3
\* Largest sector size SD.sectorSize() returns in the model.
MaxSectorSize == 3
\* Width of size_t in bits.  The target's size_t has 32 bits; TLC's integers
\* cannot hold 2^32, so the width is scaled down together with the sector
\* counts and sizes: sectors * sectorSize wraps modulo 2^SizeBits exactly as
\* it wraps modulo 2^32 on the target.
SizeBits == 3
\* Largest number of numbered children of the directory /d.
MaxEntries == 3

\* Number of NAME/VALUE pairs the heap can hold in handleNotFound's message;
\* String's += leaves the text as it is once the heap cannot hold more.
MaxMessagePairs == 260

\* ------------------------------------------------------- program constants
DAMAGEDSECTOR == 229
\* Number of values of uint8_t, the type of handleNotFound's loop counter
Uint8Mod == 256

SizeMod == 2 ^ SizeBits

\* ----------------------------------------------------------------- strings
Slash == <<"/">>
IndexHtm == <<"i", "n", "d", "e", "x", ".", "h", "t", "m">>
SlashIndexHtm == Slash \o IndexHtm
DotSrc == <<".", "s", "r", "c">>
NoString == << >>

\* String::endsWith
endsWith(s, suffix) ==
  /\ Len(s) >= Len(suffix)
  /\ SubSeq(s, Len(s) - Len(suffix) + 1, Len(s)) = suffix

\* String::lastIndexOf for a one-character pattern: 0-based, -1 when absent
lastIndexOf(s, ch) ==
  LET hits == {i \in 1..Len(s) : s[i] = ch}
  IN  IF hits = {} THEN -1
      ELSE (CHOOSE i \in hits : \A j \in hits : j <= i) - 1

\* String::substring(from, to): characters [from, to), 0-based
substring(s, from, to) == SubSeq(s, from + 1, to)

\* The else-if chain of loadFromSdCard, in its order
SuffixChain ==
  << [suffix |-> <<".", "h", "t", "m">>, type |-> "text/html"],
     [suffix |-> <<".", "c", "s", "s">>, type |-> "text/css"],
     [suffix |-> <<".", "j", "s">>,      type |-> "application/javascript"],
     [suffix |-> <<".", "p", "n", "g">>, type |-> "image/png"],
     [suffix |-> <<".", "g", "i", "f">>, type |-> "image/gif"],
     [suffix |-> <<".", "j", "p", "g">>, type |-> "image/jpeg"],
     [suffix |-> <<".", "i", "c", "o">>, type |-> "image/x-icon"],
     [suffix |-> <<".", "x", "m", "l">>, type |-> "text/xml"],
     [suffix |-> <<".", "p", "d", "f">>, type |-> "application/pdf"],
     [suffix |-> <<".", "z", "i", "p">>, type |-> "application/zip"] >>

RECURSIVE ChainType(_, _, _)
ChainType(p, k, dflt) ==
  IF k > Len(SuffixChain) THEN dflt
  ELSE IF endsWith(p, SuffixChain[k].suffix) THEN SuffixChain[k].type
  ELSE ChainType(p, k + 1, dflt)

\* loadFromSdCard lines 71-98: the path and the data type it goes on with
AppendIndex(p) == IF endsWith(p, Slash) THEN p \o IndexHtm ELSE p

\* The suffix left after .src is stripped decides the type
ResolveTypeSuffixAfterSrc(p) ==
  IF endsWith(p, DotSrc)
    THEN LET q == substring(p, 0, lastIndexOf(p, "."))
         IN  [path |-> q, dataType |-> ChainType(q, 1, "text/plain")]
    ELSE [path |-> p, dataType |-> ChainType(p, 1, "text/plain")]

ResolveType(p) ==
  IF endsWith(p, DotSrc)
    THEN [path |-> substring(p, 0, lastIndexOf(p, ".")), dataType |-> "text/plain"]
    ELSE [path |-> p, dataType |-> ChainType(p, 1, "text/plain")]

Resolve(uri) == ResolveType(AppendIndex(uri))

\* ------------------------------------------------- the card's file system
\* What is on the card: nothing usable (not mounted), or a small tree
\*   /a  /a.htm  /d  [/index.htm]      /d/1 .. /d/n  [/d/index.htm]
\* with n numbered children of /d, the even ones directories.
FileSystems ==
  {[mounted |-> FALSE, n |-> 0, index |-> FALSE]} \cup
  {[mounted |-> TRUE, n |-> n, index |-> b] : n \in 0..MaxEntries, b \in BOOLEAN}

Digits == <<"1", "2", "3", "4", "5", "6", "7", "8", "9">>
PathA == <<"/", "a">>
PathAHtm == <<"/", "a", ".", "h", "t", "m">>
PathD == <<"/", "d">>
PathN == <<"/", "n">>
Child(k) == PathD \o Slash \o <<Digits[k]>>

\* Directory::openNextFile's enumeration order
Children(f, p) ==
  IF ~f.mounted THEN << >>
  ELSE IF p = Slash
    THEN <<PathAHtm, PathA, PathD>> \o (IF f.index THEN <<SlashIndexHtm>> ELSE << >>)
  ELSE IF p = PathD
    THEN [k \in 1..f.n |-> Child(k)] \o
         (IF f.index THEN <<PathD \o SlashIndexHtm>> ELSE << >>)
  ELSE << >>

Range(q) == {q[i] : i \in 1..Len(q)}

FsKind(f, p) ==
  IF ~f.mounted THEN "none"
  ELSE IF p = Slash \/ p = PathD \/ (\E k \in 1..f.n : k % 2 = 0 /\ p = Child(k))
    THEN "dir"
  ELSE IF p \in Range(Children(f, Slash)) \cup Range(Children(f, PathD))
    THEN "file"
  ELSE "none"

\* ------------------------------------------------------------ the requests
ListUri == <<"/", "l", "i", "s", "t">>
RawUri == <<"/", "r", "a", "w">>

Stems == {Slash, PathA, PathD, PathD \o Slash, Child(1), Child(2), PathN}
Exts ==
  { << >>, DotSrc, <<".", "h", "t", "m">> \o DotSrc, <<".", "H", "T", "M">>,
    <<".", "t", "x", "t">> } \cup
  {SuffixChain[k].suffix : k \in 1..Len(SuffixChain)}
Uris == {s \o e : s \in Stems, e \in Exts}

Arg(n, v) == [name |-> n, value |-> v]
Download == Arg("download", <<"1">>)
ListArgs ==
  { << >>, <<Download>>, <<Arg("dir", Slash)>>, <<Arg("dir", PathD)>>,
    <<Arg("dir", PathA)>>, <<Arg("dir", PathN)>>, <<Arg("dir", NoString)>>,
    <<Arg("dir", Child(2)), Download>> }

\* a query string of 256 arguments
ManyArgs == [k \in 1..Uint8Mod |-> Arg("a", <<"1">>)]

Requests ==
  {[uri |-> PathN, method |-> "GET", args |-> ManyArgs]} \cup
  {[uri |-> ListUri, method |-> "GET", args |-> a] : a \in ListArgs} \cup
  {[uri |-> RawUri, method |-> "GET", args |-> << >>]} \cup
  {[uri |-> u, method |-> "GET", args |-> a] : u \in Uris, a \in {<< >>, <<Download>>}} \cup
  {[uri |-> u, method |-> m, args |-> a] :
     u \in {ListUri, RawUri, PathN}, m \in {"POST", "PUT"},
     a \in {<< >>, <<Arg("dir", Slash), Download>>}}

NoRequest == [uri |-> NoString, method |-> "NONE", args |-> << >>]

\* server.hasArg / server.arg(name)
hasArg(r, n) == \E i \in 1..Len(r.args) : r.args[i].name = n
arg(r, n) ==
  IF hasArg(r, n)
    THEN r.args[CHOOSE i \in 1..Len(r.args) :
                  /\ r.args[i].name = n
                  /\ \A j \in 1..(i - 1) : r.args[j].name # n].value
    ELSE NoString

\* The routes setup() registers
Route(r) ==
  IF r.uri = ListUri /\ r.method = "GET" THEN "pd0"
  ELSE IF r.uri = RawUri /\ r.method = "GET" THEN "raw0"
  ELSE "nf0"

\* ------------------------------------------------------------------- state
VARIABLES
  pc,            \* where the single thread of setup()/loop() stands
  hasSD,         \* static bool hasSD
  fs,            \* the card's file system (environment)
  handles,       \* the File handles that are open: [fd, path, pos]
  req,           \* the request being handled (server.uri(), method(), args)
  contentLength, \* the server's _contentLength
  ld,            \* loadFromSdCard's locals: path, dataType, dataFile
  pd,            \* printDirectory's locals: path, dir, cnt, entry
  raw,           \* streamRaw's locals: sectors, sectorSize, sdSize, data, sector
  nf,            \* handleNotFound's locals: message, i
  trace          \* calls made on the collaborators by the current request

vars == <<pc, hasSD, fs, handles, req, contentLength, ld, pd, raw, nf, trace>>

NoLen == [kind |-> "not_set", n |-> 0]
UnknownLen == [kind |-> "unknown", n |-> 0]
BytesLen(n) == [kind |-> "bytes", n |-> n]

LdInit == [path |-> NoString, dataType |-> "", dataFile |-> 0]
PdInit == [path |-> NoString, dir |-> 0, cnt |-> 0, entry |-> 0]
RawInit == [sectors |-> 0, sectorSize |-> 0, sdSize |-> 0, data |-> << >>, sector |-> 0]
NfInit == [message |-> << >>, i |-> 0]

Init ==
  /\ pc = "setup"
  /\ hasSD = FALSE
  /\ fs \in FileSystems
  /\ handles = {}
  /\ req = NoRequest
  /\ contentLength = NoLen
  /\ ld = LdInit
  /\ pd = PdInit
  /\ raw = RawInit
  /\ nf = NfInit
  /\ trace = << >>

\* ------------------------------------------------------ File and SD helpers
NewFdIn(hs) == CHOOSE n \in 1..(Cardinality(hs) + 1) : \A h \in hs : h.fd # n
NewFd == NewFdIn(handles)
Handle(fd) == CHOOSE h \in handles : h.fd = fd
\* SD.open: a handle when the path names a file or directory, an empty File (0) otherwise
OpenFdIn(hs, p) == IF FsKind(fs, p) = "none" THEN 0 ELSE NewFdIn(hs)
OpenFd(p) == OpenFdIn(handles, p)
Opened(hs, fd, p) == IF fd = 0 THEN hs ELSE hs \cup {[fd |-> fd, path |-> p, pos |-> 0]}
\* File::close, and the last File object of a handle going away
Closed(hs, fd) == {h \in hs : h.fd # fd}
\* File::isDirectory (false for an empty File)
isDirectory(fd) == fd # 0 /\ FsKind(fs, Handle(fd).path) = "dir"

EvExists(p, r) == [ev |-> "exists", path |-> p, result |-> r]
EvOpen(p, fd) == [ev |-> "open", path |-> p, fd |-> fd]
EvNext(d, p, fd) == [ev |-> "openNextFile", dir |-> d, path |-> p, fd |-> fd]
EvClose(fd) == [ev |-> "close", fd |-> fd]
EvRewind(fd) == [ev |-> "rewindDirectory", fd |-> fd]
\* server.send(code, type, content): the status line and headers, then the content
EvSend(code, type, len, content) ==
  [ev |-> "send", status |-> code, ctype |-> type,
   length |-> IF len = NoLen THEN [kind |-> "content", n |-> 0] ELSE len,
   content |-> content]
EvLog(msg, n) == [ev |-> "log", msg |-> msg, n |-> n]

\* ------------------------------------------------------------------- setup
\* setup() lines 258-263: the routes are registered and the server is started
ServerBegin ==
  /\ pc = "setup"
  /\ pc' = "sdbegin"
  /\ UNCHANGED <<hasSD, fs, handles, req, contentLength, ld, pd, raw, trace, nf>>

\* setup() lines 265-268: hasSD is set when SD.begin mounts the card
SdBegin ==
  /\ pc = "sdbegin"
  /\ hasSD' = (IF fs.mounted THEN TRUE ELSE hasSD)
  /\ pc' = "loop"
  /\ UNCHANGED <<fs, handles, req, contentLength, ld, pd, raw, trace, nf>>

\* A handleClient that is entered again while streamRaw is between two sectors
IdleOrStreaming(p) == p \in {"loop", "raw1"}

\* loop(), lines 271-274: handleClient is called when the previous call, and
\* with it the handler it ran, has returned
Idle(p) == p = "loop"

\* A loop() that probes the card again and takes the flag back
HandleClientReprobes ==
  /\ Idle(pc)
  /\ \E r \in Requests :
       /\ req' = r
       /\ pc' = Route(r)
  /\ hasSD' = FALSE
  /\ contentLength' = NoLen
  /\ trace' = << >>
  /\ UNCHANGED <<fs, handles, ld, pd, raw, nf>>

\* loop(): server.handleClient() takes the next request and calls its handler
HandleClient ==
  /\ Idle(pc)
  /\ \E r \in Requests :
       /\ req' = r
       /\ pc' = Route(r)
  /\ contentLength' = NoLen
  /\ trace' = << >>
  /\ UNCHANGED <<hasSD, fs, handles, ld, pd, raw, nf>>

\* --------------------------------------------------------------- WebServer
EvChunk(c) == [ev |-> "sendContent", chunk |-> c]
EvChunkP(bytes, n) == [ev |-> "sendContent_P", data |-> bytes, size |-> n]
EvStream(fd, p, type, size) ==
  [ev |-> "streamFile", fd |-> fd, path |-> p, ctype |-> type, size |-> size]

\* returnFail(msg), lines 66-68
returnFail(msg) == EvSend(500, "text/plain", contentLength, <<msg, "\r\n">>)

\* ---------------------------------------------------------- printDirectory
\* A handler that goes on without the argument
MissingDirIgnored(r) == FALSE

\* line 156: the guard of the BAD ARGS return
MissingDir(r) == ~hasArg(r, "dir")

\* lines 156-159
PdArgs ==
  /\ pc = "pd0"
  /\ IF MissingDir(req)
       THEN /\ trace' = Append(trace, returnFail("BAD ARGS"))
            /\ pc' = "loop"
            /\ pd' = PdInit
       ELSE /\ pd' = [pd EXCEPT !.path = arg(req, "dir")]
            /\ pc' = "pd1"
            /\ UNCHANGED trace
  /\ UNCHANGED <<hasSD, fs, handles, req, contentLength, ld, raw, nf>>

\* lines 160-162: SD.exists is only asked for a path other than "/"
PdExists ==
  /\ pc = "pd1"
  /\ IF pd.path # Slash
       THEN LET found == FsKind(fs, pd.path) # "none"
            IN  IF ~found
                  THEN /\ trace' = trace \o <<EvExists(pd.path, found), returnFail("BAD PATH")>>
                       /\ pc' = "loop"
                       /\ pd' = PdInit
                  ELSE /\ trace' = Append(trace, EvExists(pd.path, found))
                       /\ pc' = "pd2"
                       /\ UNCHANGED pd
       ELSE /\ pc' = "pd2"
            /\ UNCHANGED <<trace, pd, nf>>
  /\ UNCHANGED <<hasSD, fs, handles, req, contentLength, ld, raw, nf>>

\* The response sent while the handle is still open
NotDirCallsSendFirst(fd) == <<returnFail("NOT DIR"), EvClose(fd)>>

\* lines 166-167: what printDirectory does with a dir that is no directory
NotDirCalls(fd) == <<EvClose(fd), returnFail("NOT DIR")>>

\* lines 163-173
PdOpen ==
  /\ pc = "pd2"
  /\ LET fd == OpenFd(pd.path)
         hs == Opened(handles, fd, pd.path)
     IN  IF ~(fd # 0 /\ FsKind(fs, pd.path) = "dir")
           THEN /\ handles' = Closed(hs, fd)
                /\ trace' = trace \o <<EvOpen(pd.path, fd)>> \o NotDirCalls(fd)
                /\ pc' = "loop"
                /\ pd' = PdInit
                /\ UNCHANGED contentLength
           ELSE /\ handles' = hs
                /\ contentLength' = UnknownLen
                /\ trace' = trace \o
                     << EvOpen(pd.path, fd), EvRewind(fd),
                        EvSend(200, "text/json", UnknownLen, << >>),
                        EvChunk([kind |-> "text", text |-> "["]) >>
                /\ pd' = [pd EXCEPT !.path = NoString, !.dir = fd, !.cnt = 0]
                /\ pc' = "pd3"
  /\ UNCHANGED <<hasSD, fs, req, ld, raw, nf>>

\* lines 175-178 (the next entry) and 194-195 (after the loop)
PdNext ==
  /\ pc = "pd3"
  /\ LET d == Handle(pd.dir)
         kids == Children(fs, d.path)
     IN  IF d.pos < Len(kids)
           THEN LET fd == NewFd
                    p == kids[d.pos + 1]
                IN  /\ handles' = (handles \ {d}) \cup
                          {[d EXCEPT !.pos = d.pos + 1], [fd |-> fd, path |-> p, pos |-> 0]}
                    /\ trace' = Append(trace, EvNext(pd.dir, p, fd))
                    /\ pd' = [pd EXCEPT !.entry = fd]
                    /\ pc' = "pd4"
           ELSE /\ handles' = Closed(handles, pd.dir)
                /\ trace' = trace \o
                     << EvNext(pd.dir, NoString, 0),
                        EvChunk([kind |-> "text", text |-> "]"]), EvClose(pd.dir) >>
                /\ pd' = PdInit
                /\ pc' = "loop"
  /\ UNCHANGED <<hasSD, fs, req, contentLength, ld, raw, nf>>

\* A comma before every entry
EntryOutputAlwaysComma(cnt, isDir, name) ==
  [kind |-> "entry", comma |-> TRUE,
   type |-> IF isDir THEN "dir" ELSE "file", name |-> name]

\* lines 180-190: the text of one entry
EntryOutput(cnt, isDir, name) ==
  [kind |-> "entry", comma |-> (cnt > 0),
   type |-> IF isDir THEN "dir" ELSE "file", name |-> name]

\* An entry that is left open
CloseEntrySkipped(hs, fd) == hs

\* line 192: entry.close()
CloseEntry(hs, fd) == Closed(hs, fd)

\* lines 180-192, then ++cnt
PdEmit ==
  /\ pc = "pd4"
  /\ trace' = trace \o
       << EvChunk(EntryOutput(pd.cnt, isDirectory(pd.entry), Handle(pd.entry).path)),
          EvClose(pd.entry) >>
  /\ handles' = CloseEntry(handles, pd.entry)
  /\ pd' = [pd EXCEPT !.entry = 0, !.cnt = pd.cnt + 1]
  /\ pc' = "pd3"
  /\ UNCHANGED <<hasSD, fs, req, contentLength, ld, raw, nf>>

\* --------------------------------------------------------------- streamRaw
\* What SD.numSectors() and SD.sectorSize() return: 0 and 0 from a driver that
\* holds no card (SD.begin failed), a card's geometry otherwise
NoCard == [n |-> 0, size |-> 0]
Geometries(mounted) ==
  IF mounted
    THEN {[n |-> n, size |-> z] : n \in 0..MaxSectors, z \in 1..MaxSectorSize}
    ELSE {NoCard}

\* The card's content: byte j of sector s (never 0 or 0xE5 here)
DevByte(s, j) == 1 + ((s * (MaxSectorSize + 1) + j) % 200)
DevSector(s, size) == [j \in 1..size |-> DevByte(s, j)]

\* conversion to size_t
ToSizeT(x) == x % SizeMod

\* memset(data, c, sectorSize)
memset(size, c) == [j \in 1..size |-> c]

\* line 128: size_t sdSize = sectors*sectorSize
SdSize(sectors, sectorSize) == ToSizeT(sectors * sectorSize)

EvGeometry(g) == [ev |-> "geometry", sectors |-> g.n, sectorSize |-> g.size]
EvRead(s, ok, data) == [ev |-> "readRAW", sector |-> s, ok |-> ok, data |-> data]

\* lines 124-142
RawBegin ==
  /\ pc = "raw0"
  /\ \E g \in Geometries(hasSD) :
       LET sz == SdSize(g.n, g.size)
       IN  /\ raw' = [sectors |-> g.n, sectorSize |-> g.size, sdSize |-> sz,
                      data |-> memset(g.size, 0), sector |-> 0]
           /\ contentLength' = BytesLen(sz)
           /\ trace' = trace \o
                << EvGeometry(g), EvLog("sectors, bytes per sector, bytes", sz),
                   EvSend(200, "application/octet-stream", BytesLen(sz), << >>) >>
  /\ pc' = "raw1"
  /\ UNCHANGED <<hasSD, fs, handles, req, ld, pd, nf>>

\* A loop that stops one sector early
RawMoreOffByOne(sector, sectors) == sector + 1 < sectors

\* line 144: the loop condition
RawMore(sector, sectors) == sector < sectors

\* What a failed readRAW may leave in the buffer: the first k bytes overwritten
\* with what was transferred of the sector, the rest as it was
PartialRead(data, s, k) ==
  [j \in 1..Len(data) |-> IF j <= k THEN DevByte(s, j) ELSE data[j]]

\* lines 144-145: the loop test and SD.readRAW(data, sector)
RawRead ==
  /\ pc = "raw1"
  /\ IF RawMore(raw.sector, raw.sectors)
       THEN \/ LET d == DevSector(raw.sector, raw.sectorSize)
               IN  /\ raw' = [raw EXCEPT !.data = d]
                   /\ trace' = Append(trace, EvRead(raw.sector, TRUE, d))
                   /\ pc' = "raw3"
            \/ \E k \in 0..raw.sectorSize :
                 LET d == PartialRead(raw.data, raw.sector, k)
                 IN  /\ raw' = [raw EXCEPT !.data = d]
                     /\ trace' = Append(trace, EvRead(raw.sector, FALSE, d))
                     /\ pc' = "raw2"
       ELSE /\ raw' = RawInit
            /\ pc' = "loop"
            /\ UNCHANGED trace
  /\ UNCHANGED <<hasSD, fs, handles, req, contentLength, ld, pd, nf>>

\* A failed read whose buffer is sent as it is
MarkDamagedSkipped(data, size) == data

\* line 146: the buffer after a failed read
MarkDamaged(data, size) == memset(size, DAMAGEDSECTOR)

\* lines 146-148
RawFill ==
  /\ pc = "raw2"
  /\ raw' = [raw EXCEPT !.data = MarkDamaged(raw.data, raw.sectorSize)]
  /\ trace' = Append(trace, EvLog("Error reading sector", raw.sector))
  /\ pc' = "raw3"
  /\ UNCHANGED <<hasSD, fs, handles, req, contentLength, ld, pd, nf>>

\* A failed sector skipped over together with its successor
NextSectorSkips(sector) == sector + 2

\* line 144: sector ++
NextSector(sector) == sector + 1

\* line 150, then sector ++
RawWrite ==
  /\ pc = "raw3"
  /\ trace' = Append(trace, EvChunkP(raw.data, raw.sectorSize))
  /\ raw' = [raw EXCEPT !.sector = NextSector(raw.sector)]
  /\ pc' = "raw1"
  /\ UNCHANGED <<hasSD, fs, handles, req, contentLength, ld, pd, nf>>

\* ------------------------------------------- handleNotFound, loadFromSdCard
\* line 199: loadFromSdCard(server.uri()) is only called when hasSD
NfEnter ==
  /\ pc = "nf0"
  /\ IF hasSD
       THEN /\ ld' = [path |-> req.uri, dataType |-> "text/plain", dataFile |-> 0]
            /\ pc' = "ld0"
       ELSE /\ pc' = "nf1"
            /\ UNCHANGED ld
  /\ UNCHANGED <<hasSD, fs, handles, req, contentLength, pd, raw, trace, nf>>

\* lines 71-98
LdResolve ==
  /\ pc = "ld0"
  /\ ld' = [ld EXCEPT !.path = Resolve(ld.path).path,
                      !.dataType = Resolve(ld.path).dataType]
  /\ pc' = "ld1"
  /\ UNCHANGED <<hasSD, fs, handles, req, contentLength, pd, raw, trace, nf>>

\* An assignment that leaves the directory's handle open
FileAssignLeak(hs, old) == hs

\* line 104: dataFile = SD.open(...) over a File that holds a handle.  File is a
\* value that shares its handle; overwriting the last File of a handle closes it.
FileAssign(hs, old) == Closed(hs, old)

\* lines 100-105
LdOpen ==
  /\ pc = "ld1"
  /\ LET fd1 == OpenFd(ld.path)
         hs1 == Opened(handles, fd1, ld.path)
     IN  IF fd1 # 0 /\ FsKind(fs, ld.path) = "dir"
           THEN LET p2 == ld.path \o SlashIndexHtm
                    fd2 == OpenFdIn(hs1, p2)
                    hs2 == Opened(hs1, fd2, p2)
                IN  /\ handles' = FileAssign(hs2, fd1)
                    /\ trace' = trace \o
                         ( <<EvOpen(ld.path, fd1), EvOpen(p2, fd2)>> \o
                           [i \in 1..Cardinality(hs2 \ FileAssign(hs2, fd1)) |-> EvClose(fd1)] )
                    /\ ld' = [path |-> p2, dataType |-> "text/html", dataFile |-> fd2]
           ELSE /\ handles' = hs1
                /\ trace' = Append(trace, EvOpen(ld.path, fd1))
                /\ ld' = [ld EXCEPT !.dataFile = fd1]
  /\ pc' = "ld2"
  /\ UNCHANGED <<hasSD, fs, req, contentLength, pd, raw, nf>>

\* A failed open that takes the flag back
LdCheckClearsFlag ==
  /\ pc = "ld2"
  /\ IF ld.dataFile = 0
       THEN /\ ld' = LdInit
            /\ hasSD' = FALSE
            /\ pc' = "nf1"
       ELSE /\ pc' = "ld3"
            /\ UNCHANGED <<ld, hasSD>>
  /\ UNCHANGED <<fs, handles, req, contentLength, pd, raw, trace, nf>>

\* lines 107-109
LdCheck ==
  /\ pc = "ld2"
  /\ IF ld.dataFile = 0
       THEN /\ ld' = LdInit
            /\ pc' = "nf1"
       ELSE /\ pc' = "ld3"
            /\ UNCHANGED ld
  /\ UNCHANGED <<hasSD, fs, handles, req, contentLength, pd, raw, trace, nf>>

\* The download flag ignored
StreamTypeNoOverride(dataType, r) == dataType

\* lines 111-113: the type handed to streamFile
StreamType(dataType, r) ==
  IF hasArg(r, "download") THEN "application/octet-stream" ELSE dataType

FileSize(p) == Len(p)

\* lines 111-120; streamFile may send fewer bytes than the file holds
LdStream ==
  /\ pc = "ld3"
  /\ \E sent \in {FileSize(ld.path), FileSize(ld.path) - 1} :
       trace' = trace \o
         <<EvStream(ld.dataFile, ld.path, StreamType(ld.dataType, req), FileSize(ld.path))>> \o
         (IF sent # FileSize(ld.path)
            THEN <<EvLog("Sent less data than expected!", sent)>> ELSE << >>) \o
         <<EvClose(ld.dataFile)>>
  /\ handles' = Closed(handles, ld.dataFile)
  /\ ld' = LdInit
  /\ pc' = "loop"
  /\ UNCHANGED <<hasSD, fs, req, contentLength, pd, raw, nf>>

\* the pieces of the 404 body
PartNotice == [part |-> "SDCARD Not Detected"]
PartUri(u) == [part |-> "URI", text |-> u]
PartMethod(m) == [part |-> "Method", name |-> m]
PartArguments(n) == [part |-> "Arguments", n |-> n]
PartArg(a) == [part |-> "NAME/VALUE", name |-> a.name, value |-> a.value]

\* line 203: the notice is put first when no card was detected
NoticeNeeded(h) == ~h

\* line 209: the method's name in the message
MethodName(m) == IF m = "GET" THEN "GET" ELSE "POST"

\* lines 202-212: the message before the loop over the arguments
NotFoundMessage(r) ==
  (IF NoticeNeeded(hasSD) THEN <<PartNotice>> ELSE << >>) \o
  <<PartUri(r.uri), PartMethod(MethodName(r.method)), PartArguments(Len(r.args))>>

\* message += ...: nothing is appended once the heap is exhausted
Concat(message, piece) ==
  IF Cardinality({k \in 1..Len(message) : message[k].part = "NAME/VALUE"}) < MaxMessagePairs
    THEN Append(message, piece)
    ELSE message

\* lines 202-212, uint8_t i = 0
NfMessage ==
  /\ pc = "nf1"
  /\ nf' = [message |-> NotFoundMessage(req), i |-> 0]
  /\ pc' = "nf2"
  /\ UNCHANGED <<hasSD, fs, handles, req, contentLength, ld, pd, raw, trace>>

\* lines 213-215: i < server.args(), the body, i++ in uint8_t
NfArg ==
  /\ pc = "nf2"
  /\ IF nf.i < Len(req.args)
       THEN /\ nf' = [message |-> Concat(nf.message, PartArg(req.args[nf.i + 1])),
                      i |-> (nf.i + 1) % Uint8Mod]
            /\ pc' = "nf2"
       ELSE /\ pc' = "nf3"
            /\ UNCHANGED nf
  /\ UNCHANGED <<hasSD, fs, handles, req, contentLength, ld, pd, raw, trace>>

\* lines 216-217
NfSend ==
  /\ pc = "nf3"
  /\ trace' = trace \o
       << EvSend(404, "text/plain", contentLength, nf.message),
          EvLog("message", 0) >>
  /\ nf' = NfInit
  /\ pc' = "loop"
  /\ UNCHANGED <<hasSD, fs, handles, req, contentLength, ld, pd, raw>>

\* ------------------------------------------------------------ specification
Next ==
  \/ ServerBegin
  \/ SdBegin
  \/ HandleClient
  \/ PdArgs
  \/ PdExists
  \/ PdOpen
  \/ PdNext
  \/ PdEmit
  \/ RawBegin
  \/ RawRead
  \/ RawFill
  \/ RawWrite
  \/ NfEnter
  \/ LdResolve
  \/ LdOpen
  \/ LdCheck
  \/ LdStream
  \/ NfMessage
  \/ NfArg
  \/ NfSend

Spec == Init /\ [][Next]_vars

\* loop() is called again and again and every call a handler makes returns: a
\* step that can be taken is taken
FairSpec == Spec /\ WF_vars(Next)

\* ------------------------------------------------------------- properties
Sel(ev) == SelectSeq(trace, LAMBDA e : e.ev = ev)
Pos(ev) == {i \in 1..Len(trace) : trace[i].ev = ev}
\* the handler of the current request has returned
Returned == pc = "loop" /\ req # NoRequest
RawRequest == req # NoRequest /\ Route(req) = "raw0"
ListRequest == req # NoRequest /\ Route(req) = "pd0"
FileRequest == req # NoRequest /\ Route(req) = "nf0"
\* the geometry streamRaw read from the card
Geo == Sel("geometry")[1]

RECURSIVE SumSizes(_)
SumSizes(q) == IF q = << >> THEN 0 ELSE Head(q).size + SumSizes(Tail(q))

\* C1: a /raw request that has run to completion has written exactly one
\* sectorSize-byte block per sector, sectorCount * sectorSize body bytes in
\* all, whichever reads failed, and no other body bytes.
C1_RawTotalBytes ==
  (Returned /\ RawRequest) =>
     LET w == Sel("sendContent_P")
     IN  /\ Len(w) = Geo.sectors
         /\ \A i \in 1..Len(w) :
              w[i].size = Geo.sectorSize /\ Len(w[i].data) = Geo.sectorSize
         /\ SumSizes(w) = Geo.sectors * Geo.sectorSize
         /\ Sel("sendContent") = << >> /\ Sel("streamFile") = << >>
         /\ \A i \in Pos("send") : trace[i].content = << >>

\* C1 witness: a completed transfer of several sectors, some read, some failed
C1_Witness ==
  /\ Returned /\ RawRequest
  /\ Geo.sectors >= 3 /\ Geo.sectorSize >= 2
  /\ \E i, j \in Pos("readRAW") : trace[i].ok /\ ~trace[j].ok

\* C2: the content length declared by streamRaw is the exact product
\* sectorCount * sectorSize (and so the number of bytes then written).
C2_DeclaredLengthExact ==
  RawRequest =>
     \A i \in Pos("send") :
        /\ trace[i].length.kind = "bytes"
        /\ trace[i].length.n = Geo.sectors * Geo.sectorSize

\* C3: the block written for sector i is the sector's content when its read
\* succeeded and sectorSize bytes 0xE5 when it failed, never a mix.
C3_SectorOrMarker ==
  RawRequest =>
     LET w == Sel("sendContent_P")
         r == Sel("readRAW")
     IN  /\ Len(w) <= Len(r)
         /\ \A i \in 1..Len(w) :
              /\ r[i].sector = i - 1
              /\ w[i].data = IF r[i].ok
                               THEN DevSector(i - 1, Geo.sectorSize)
                               ELSE [j \in 1..Geo.sectorSize |-> DAMAGEDSECTOR]

\* C3 witness: a failed read that overwrote part of the buffer, then a
\* successful read, both written
C3_Witness ==
  /\ Returned /\ RawRequest
  /\ Geo.sectorSize >= 2
  /\ LET r == Sel("readRAW")
     IN  \E i \in 1..(Len(r) - 1) :
           /\ ~r[i].ok /\ r[i + 1].ok
           /\ \E j, k \in 1..Geo.sectorSize :
                /\ r[i].data[j] = DevByte(i - 1, j)
                /\ r[i].data[k] # DevByte(i - 1, k)

FsEvents == {"exists", "open", "openNextFile", "close", "rewindDirectory"}
\* the error responses of /list: a send whose content is a message line
ErrorSends == {i \in Pos("send") : trace[i].content # << >>}
Failed(msg) ==
  /\ Returned /\ ListRequest
  /\ trace # << >>
  /\ LET e == trace[Len(trace)]
     IN  /\ e.ev = "send"
         /\ e.ctype = "text/plain"
         /\ e.content = <<msg, "\r\n">>

\* C4: a /list request without a dir argument is answered with the BAD ARGS
\* line and makes no call on the file system, before or after the response.
C4_BadArgsNoFs ==
  (ListRequest /\ ~hasArg(req, "dir")) =>
     /\ \A i \in 1..Len(trace) : trace[i].ev \notin FsEvents
     /\ handles = {}
     /\ pc \in {"pd0", "loop"}
     /\ pc = "loop" => (Failed("BAD ARGS") /\ Len(trace) = 1)

\* C4 witness: such a request, answered, with other arguments present
C4_Witness ==
  /\ Returned /\ ListRequest
  /\ ~hasArg(req, "dir") /\ Len(req.args) > 0
  /\ Len(trace) = 1

\* C5: each of the three /list errors is answered with a 4xx status and a
\* plain-text body, before any 200 status, '[' or entry is sent.
C5_ListErrors4xx ==
  ListRequest =>
     \A i \in ErrorSends :
        /\ trace[i].status >= 400 /\ trace[i].status <= 499
        /\ trace[i].ctype = "text/plain"
        /\ Sel("sendContent") = << >>
        /\ \A j \in Pos("send") : trace[j].status # 200

\* C6: a dir other than "/" that does not exist gets BAD PATH and nothing is
\* opened; a dir that passes that check ("/" passes unasked) and does not open
\* as a directory gets NOT DIR, the opened handle closed before the response.
C6_BadPathNotDir ==
  (Returned /\ ListRequest /\ hasArg(req, "dir")) =>
     LET dir == arg(req, "dir")
         kind == FsKind(fs, dir)
     IN  /\ (dir # Slash /\ kind = "none") =>
               /\ Failed("BAD PATH")
               /\ Pos("open") = {}
               /\ handles = {}
         /\ (dir = Slash => Pos("exists") = {})
         /\ ((dir = Slash \/ kind # "none") /\ kind # "dir") =>
               /\ Failed("NOT DIR")
               /\ handles = {}
               /\ \A i \in Pos("open") :
                    /\ trace[i].path = dir
                    /\ trace[i].fd # 0 =>
                         \E j \in Pos("close") :
                            /\ trace[j].fd = trace[i].fd
                            /\ i < j
                            /\ \A k \in Pos("send") : j < k
               /\ Cardinality(Pos("open")) = 1

\* C6 witness: NOT DIR for a file that was opened
C6_Witness ==
  /\ Failed("NOT DIR")
  /\ ListRequest
  /\ \E i \in Pos("open") : trace[i].fd # 0

\* the path and type of an entry chunk
EntryOf(p) == [kind |-> "entry", type |-> IF FsKind(fs, p) = "dir" THEN "dir" ELSE "file",
               name |-> p]
Uncomma(c) == [kind |-> c.kind, type |-> c.type, name |-> c.name]

\* C7: for a directory of N entries the chunks are '[', the N entries in
\* enumeration order with a comma before each but the first, and ']'.
C7_ListingChunks ==
  (Returned /\ ListRequest /\ hasArg(req, "dir")
     /\ FsKind(fs, arg(req, "dir")) = "dir") =>
     LET kids == Children(fs, arg(req, "dir"))
         n == Len(kids)
         c == Sel("sendContent")
     IN  /\ Len(c) = n + 2
         /\ c[1].chunk = [kind |-> "text", text |-> "["]
         /\ c[n + 2].chunk = [kind |-> "text", text |-> "]"]
         /\ \A k \in 1..n :
              /\ c[k + 1].chunk.kind = "entry"
              /\ Uncomma(c[k + 1].chunk) = EntryOf(kids[k])
              /\ c[k + 1].chunk.comma = (k > 1)
         /\ Cardinality({k \in 1..n : c[k + 1].chunk.comma}) = (IF n = 0 THEN 0 ELSE n - 1)

\* C7 witness: a listing of at least three entries, files and directories
C7_Witness ==
  /\ Returned /\ ListRequest
  /\ LET c == Sel("sendContent")
     IN  /\ Len(c) >= 5
         /\ c[Len(c)].chunk = [kind |-> "text", text |-> "]"]
         /\ \E i, j \in 2..(Len(c) - 1) : c[i].chunk.type = "dir" /\ c[j].chunk.type = "file"

\* C7 witness for N = 0: an empty directory lists as '[' ']'
C7_EmptyListing ==
  /\ Returned /\ ListRequest
  /\ Len(Sel("sendContent")) = 2

\* C8: every handle loadFromSdCard opens is closed when it returns: after a
\* file was served, after nothing could be opened, and after a directory was
\* opened and <path>/index.htm was opened (or not) in its place.
C8_LoadClosesHandles ==
  (FileRequest /\ pc \in {"nf1", "loop"}) =>
     /\ handles = {}
     /\ \A i \in Pos("open") :
          trace[i].fd # 0 =>
             \E j \in Pos("close") : i < j /\ trace[j].fd = trace[i].fd

\* C8 witness: a directory was opened and its index.htm could not be
C8_Witness ==
  /\ FileRequest /\ pc = "nf1"
  /\ LET o == Sel("open")
     IN  Len(o) = 2 /\ o[1].fd # 0 /\ o[2].fd = 0

\* C8 witness: a directory was opened, then its index.htm, which was served
C8_WitnessIndexServed ==
  /\ FileRequest /\ Returned
  /\ LET o == Sel("open")
     IN  Len(o) = 2 /\ o[1].fd # 0 /\ o[2].fd # 0
  /\ Pos("streamFile") # {}

\* the type inferred before the download flag is looked at
Inferred ==
  IF Len(Sel("open")) = 2 THEN "text/html" ELSE Resolve(req.uri).dataType

\* C9: a file served with the download flag goes out as
\* application/octet-stream whatever type was inferred; without the flag the
\* inferred type is passed unchanged.
C9_DownloadOverride ==
  FileRequest =>
     \A i \in Pos("streamFile") :
        trace[i].ctype = IF hasArg(req, "download")
                           THEN "application/octet-stream" ELSE Inferred

\* C9 witness: the flag overrides the text/html of the directory-index fallback
C9_Witness ==
  /\ FileRequest /\ Returned
  /\ hasArg(req, "download")
  /\ Len(Sel("open")) = 2
  /\ \E i \in Pos("streamFile") : trace[i].ctype = "application/octet-stream"

\* C9 witness: without the flag an .htm file goes out as text/html
C9_WitnessNoFlag ==
  /\ FileRequest /\ Returned
  /\ ~hasArg(req, "download")
  /\ \E i \in Pos("streamFile") : trace[i].ctype = "text/html" /\ trace[i].path = PathAHtm

\* The suffix table of the specification, by the characters after the last dot
TableType ==
  [e \in {SubSeq(SuffixChain[k].suffix, 2, Len(SuffixChain[k].suffix)) :
            k \in 1..Len(SuffixChain)} |->
     CASE e = <<"h", "t", "m">> -> "text/html"
       [] e = <<"c", "s", "s">> -> "text/css"
       [] e = <<"j", "s">>      -> "application/javascript"
       [] e = <<"p", "n", "g">> -> "image/png"
       [] e = <<"g", "i", "f">> -> "image/gif"
       [] e = <<"j", "p", "g">> -> "image/jpeg"
       [] e = <<"i", "c", "o">> -> "image/x-icon"
       [] e = <<"x", "m", "l">> -> "text/xml"
       [] e = <<"p", "d", "f">> -> "application/pdf"
       [] e = <<"z", "i", "p">> -> "application/zip"]
Dots(p) == {i \in 1..Len(p) : p[i] = "."}
LastDot(p) == CHOOSE i \in Dots(p) : \A j \in Dots(p) : j <= i
TypeBySuffix(p) ==
  IF Dots(p) = {} THEN "text/plain"
  ELSE LET e == SubSeq(p, LastDot(p) + 1, Len(p))
       IN  IF e \in DOMAIN TableType THEN TableType[e] ELSE "text/plain"
WithIndex(p) == IF p # << >> /\ p[Len(p)] = "/" THEN p \o IndexHtm ELSE p
IsSrc(p) == Len(p) >= 4 /\ SubSeq(p, Len(p) - 3, Len(p)) = DotSrc

\* C10: the path and type loadFromSdCard goes on with are: index.htm appended
\* to a trailing '/'; then for a .src path the path without .src and
\* text/plain, whatever suffix remains; otherwise the table's type for the
\* suffix, text/plain when it is unknown or absent.
C10_ContentTypeResolution ==
  (pc = "ld1") =>
     LET p == WithIndex(req.uri)
     IN  /\ IsSrc(p) =>
              /\ ld.path \o DotSrc = p
              /\ ld.dataType = "text/plain"
         /\ ~IsSrc(p) =>
              /\ ld.path = p
              /\ ld.dataType = TypeBySuffix(p)
         /\ (req.uri = PathA \o DotSrc) =>
              (ld.path = PathA /\ ld.dataType = "text/plain")
         /\ (req.uri = PathAHtm) => ld.dataType = "text/html"
         /\ (req.uri = PathD \o Slash) =>
              (ld.path = PathD \o SlashIndexHtm /\ ld.dataType = "text/html")

\* C10 witness: /a.htm.src resolved to /a.htm as text/plain
C10_Witness ==
  /\ pc = "ld1"
  /\ req.uri = PathAHtm \o DotSrc
  /\ ld.path = PathAHtm
  /\ ld.dataType = "text/plain"

\* C10 witness: a trailing '/' resolved to the index document
C10_WitnessIndex ==
  /\ pc = "ld1"
  /\ req.uri = PathD \o Slash
  /\ ld.path = PathD \o SlashIndexHtm

\* the 404 responses of the current request
NotFoundSends == {i \in Pos("send") : trace[i].status = 404}
Parts(m, part) == SelectSeq(m, LAMBDA x : x.part = part)

\* C11: the 404 body holds the requested path, the method the request was
\* made with, and one NAME/VALUE pair for every argument, in their order.
C11_NotFoundBody ==
  FileRequest =>
     \A i \in NotFoundSends :
        LET m == trace[i].content
        IN  /\ Parts(m, "URI") = <<PartUri(req.uri)>>
            /\ Parts(m, "Method") = <<PartMethod(req.method)>>
            /\ Parts(m, "NAME/VALUE") = [k \in 1..Len(req.args) |-> PartArg(req.args[k])]

\* C12: handleNotFound always terminates and ends by sending a response,
\* whatever the number of arguments.
C12_NotFoundTerminates ==
  (pc = "nf0") ~> (pc = "loop" /\ (NotFoundSends # {} \/ Pos("streamFile") # {}))

\* server.begin() has been called
ServerStarted == pc # "setup"
InSetup == pc \in {"setup", "sdbegin"}

\* C13 as stated: hasSD is written during startup, before server.begin().
C13_WriteBeforeServerBegin ==
  [][(hasSD' # hasSD) => (~ServerStarted /\ req = NoRequest)]_vars

\* C13 as amended: hasSD is written at most once, from false to true, by the
\* last step of setup() (after server.begin()), and no request is dispatched
\* before setup() has finished, so none is handled with a value that startup
\* changes afterwards.
C13_WriteBeforeFirstRequest ==
  /\ [][(hasSD' # hasSD) =>
          (pc = "sdbegin" /\ pc' = "loop" /\ ~hasSD /\ hasSD' /\ req = NoRequest)]_vars
  /\ [](InSetup => req = NoRequest)

\* C13 witness: the flag was set and a request has been handled with it
C13_Witness ==
  /\ Returned
  /\ hasSD
  /\ NotFoundSends # {}

\* the reads and writes of streamRaw, in the order they were made
RawCalls == SelectSeq(trace, LAMBDA e : e.ev \in {"readRAW", "sendContent_P"})

\* C14: readRAW is called once per sector index, in ascending order, and the
\* write of a sector comes after its read and before the next read; a failed
\* sector is not read again.
C14_ReadWriteOrder ==
  RawRequest =>
     /\ \A k \in 1..Len(RawCalls) :
          IF k % 2 = 1
            THEN RawCalls[k].ev = "readRAW" /\ RawCalls[k].sector = (k - 1) \div 2
            ELSE RawCalls[k].ev = "sendContent_P"
     /\ \A i, j \in Pos("readRAW") : trace[i].sector = trace[j].sector => i = j
     /\ Returned => Len(RawCalls) = 2 * Geo.sectors

\* C14 witness: a completed transfer whose first sector failed
C14_Witness ==
  /\ Returned /\ RawRequest
  /\ Geo.sectors >= 3
  /\ ~Sel("readRAW")[1].ok
  /\ Sel("readRAW")[3].ok

\* C15: during a listing at most one entry handle is open beside the
\* directory's, and printDirectory returns with every handle closed.
C15_OneEntryOpen ==
  ListRequest =>
     /\ Cardinality({h \in handles : h.fd # pd.dir}) <= 1
     /\ Cardinality(handles) <= 2
     /\ (pc = "pd3") => handles = {Handle(pd.dir)}
     /\ Returned => handles = {}
     /\ \A i, j \in Pos("openNextFile") :
          (i < j /\ trace[i].fd # 0) =>
             \E k \in Pos("close") : i < k /\ k < j /\ trace[k].fd = trace[i].fd

\* C15 witness: the third entry of a listing is open, the first two are closed
C15_Witness ==
  /\ ListRequest /\ pc = "pd4"
  /\ pd.cnt = 2
  /\ Cardinality(handles) = 2

\* C15 witness: a listing of several entries has returned
C15_WitnessReturned ==
  /\ ListRequest /\ Returned
  /\ Cardinality(Pos("openNextFile")) >= 3
  /\ handles = {}

\* the events that put a status line and headers on the wire
HeaderEvents == {"send", "streamFile"}
Headers == {i \in 1..Len(trace) : trace[i].ev \in HeaderEvents}
\* loadFromSdCard has returned false and handleNotFound goes on
LoadFailed == FileRequest /\ hasSD /\ pc = "nf1"

\* C16: a path that opens as a directory is replaced by <path>/index.htm,
\* resolved as text/html; when nothing could be opened loadFromSdCard sends
\* nothing, and handleNotFound then sends the 404 body.
C16_IndexOrNotFound ==
  /\ [](FileRequest /\ Pos("open") # {} =>
          LET o == Sel("open")
              isDir == o[1].fd # 0 /\ FsKind(fs, o[1].path) = "dir"
          IN  /\ isDir => /\ Len(o) = 2
                          /\ o[2].path = o[1].path \o SlashIndexHtm
                          /\ \A i \in Pos("streamFile") :
                                /\ trace[i].path = o[2].path
                                /\ trace[i].ctype = StreamType("text/html", req)
              /\ ~isDir => Len(o) = 1
              /\ o[Len(o)].fd = 0 => Pos("streamFile") = {})
  /\ [](LoadFailed => Headers = {} /\ handles = {})
  /\ LoadFailed ~> (Returned /\ NotFoundSends # {})

\* the 404 bodies that carry the notice
Noticed == {i \in NotFoundSends : Parts(trace[i].content, PartNotice.part) # << >>}

\* C17: without a card a request that reaches handleNotFound does nothing on
\* the file system and is answered with a 404 whose body begins with the
\* notice; with a card the notice is in no 404 body.
C17_NoticeIffNoCard ==
  /\ [](FileRequest /\ ~hasSD =>
          /\ \A i \in 1..Len(trace) : trace[i].ev \notin FsEvents
          /\ Pos("streamFile") = {}
          /\ \A i \in NotFoundSends : Head(trace[i].content) = PartNotice)
  /\ [](FileRequest /\ hasSD => Noticed = {})
  /\ (FileRequest /\ ~hasSD /\ pc = "nf0") ~> (Returned /\ NotFoundSends # {})

\* C18: once setup() has finished no step writes hasSD, whatever the requests
\* and whatever reads and opens fail.
C18_FlagFrozenAfterSetup ==
  [][~InSetup => hasSD' = hasSD]_vars

\* C18 witness: with the flag set, a transfer with a failed sector has
\* returned
C18_Witness ==
  /\ Returned /\ RawRequest
  /\ hasSD
  /\ \E i \in Pos("readRAW") : ~trace[i].ok

\* C18 witness: with the flag set, an open has failed and the 404 was sent
C18_WitnessOpenFailed ==
  /\ Returned /\ FileRequest
  /\ hasSD
  /\ \E i \in Pos("open") : trace[i].fd = 0
  /\ NotFoundSends # {}

\* the first step of each handler, where handleClient dispatches to
Entries == {"pd0", "raw0", "nf0"}
\* the steps of streamRaw between its first read and its last write
RawSteps == {"raw1", "raw2", "raw3"}
RawEvents == {"geometry", "log", "send", "readRAW", "sendContent_P"}

\* a dispatch finds no handler running and no handler's locals in use
DispatchWhenIdle ==
  pc' \in Entries =>
     pc = "loop" /\ ld = LdInit /\ pd = PdInit /\ raw = RawInit /\ nf = NfInit
\* a running handler keeps its request and what it has sent so far
HandlerKeepsRequest ==
  pc # "loop" =>
     /\ req' = req
     /\ Len(trace') >= Len(trace)
     /\ SubSeq(trace', 1, Len(trace)) = trace
\* a step of a transfer is followed by a step of the same transfer or by its
\* return after the last sector
RawRunsToCompletion ==
  pc \in RawSteps =>
     /\ pc' \in RawSteps \/ (pc' = "loop" /\ ~RawMore(raw.sector, raw.sectors))
     /\ (pc' \in RawSteps) =>
           /\ raw'.sectors = raw.sectors
           /\ raw'.sector \in {raw.sector, NextSector(raw.sector)}

\* C19: a request is dispatched only when no handler is running, a running
\* handler keeps its request and its responses until it returns, and a /raw
\* transfer runs from its first to its last sector with no step of another
\* handler in between; the sector buffer is held by that one request only.
C19_OneHandlerInFlight ==
  /\ [][DispatchWhenIdle /\ HandlerKeepsRequest /\ RawRunsToCompletion]_vars
  /\ [](pc \in RawSteps =>
          /\ RawRequest
          /\ ld = LdInit /\ pd = PdInit /\ nf = NfInit
          /\ \A i \in 1..Len(trace) : trace[i].ev \in RawEvents)
  /\ [](pc \notin RawSteps => raw = RawInit)

\* C19 witness: a transfer is between its first and its last sector
C19_Witness ==
  /\ pc = "raw1"
  /\ 0 < raw.sector /\ raw.sector < raw.sectors
  /\ Len(Sel("sendContent_P")) = raw.sector

\* the calls that put body bytes after the headers
BodyEvents == {"sendContent", "sendContent_P"}
Bodies == {i \in 1..Len(trace) : trace[i].ev \in BodyEvents}
Statuses == {trace[i].status : i \in Pos("send")}

\* what a handler has put on the wire so far is well formed: at most one status
\* line, before every body chunk, of the kind its route sends
ResponseShape ==
  /\ Cardinality(Headers) <= 1
  /\ \A b \in Bodies : \E h \in Pos("send") : h < b /\ trace[h].status = 200
  /\ ListRequest => Pos("streamFile") = {} /\ Statuses \subseteq {200, 500}
  /\ RawRequest => Pos("streamFile") = {} /\ Statuses \subseteq {200}
  /\ FileRequest => Bodies = {} /\ Statuses \subseteq {404}
\* a handler that has returned has sent exactly one response
ResponseSent ==
  /\ Returned
  /\ Cardinality(Headers) = 1
  /\ ListRequest /\ Statuses = {200} => Bodies # {}

\* C20: every handled request sends its status line and headers exactly once
\* and before any body chunk: /list one error or one 200 and chunks, /raw one
\* 200 and sector chunks, the fallback one file stream or one 404, never both
\* and never neither.
C20_OneResponse ==
  /\ [](req # NoRequest => ResponseShape)
  /\ [](Returned => ResponseSent)
  /\ (pc \in Entries) ~> ResponseSent
====
